---- MODULE Spec2Model ----
(***************************************************************************)
(* A model of main.py: the A-share quote API (FastAPI + slowapi +          *)
(* cachetools over AKShare).                                               *)
(*                                                                         *)
(* Strings that the code inspects character by character (symbols, dates)  *)
(* are sequences of one-character strings.  Floats are integers counting   *)
(* hundredths (11.43 is 1143).  Time is counted in ticks of 30 seconds.    *)
(***************************************************************************)
EXTENDS Integers, Sequences, FiniteSets, TLC

VARIABLES
    now,              \* time.monotonic() / time.time(), in ticks
    realtime_cache,   \* main.py:27  TTLCache, entries in least-recently-used order
    daily_cache,      \* main.py:28  TTLCache, entries in least-recently-used order
    limiter_storage,  \* main.py:30  slowapi Limiter's fixed-window counters
    fills,            \* history: per endpoint and symbol, the latest upstream fetch
    last,             \* the latest request and the response it was given
    wall,             \* datetime.now()
    trading           \* what is_trading_time() returned when called on its own

vars == <<now, realtime_cache, daily_cache, limiter_storage, fills, last, wall, trading>>

-----------------------------------------------------------------------------
(* Bounds of the model.  The program's sizes (100 and 200 entries, 60 s and *)
(* 3600 s, 20 requests a minute) are scaled down to these so that expiry,   *)
(* eviction and rate-limit exhaustion all happen within the explored runs.  *)

MaxTime == 3
\* realtime_cache = TTLCache(maxsize=100, ttl=60), scaled
REALTIME_MAXSIZE == 2
REALTIME_TTL == 2
\* daily_cache = TTLCache(maxsize=200, ttl=3600), scaled
DAILY_MAXSIZE == 2
DAILY_TTL == 3
\* "20/minute", scaled
RATE_AMOUNT == 2
RATE_WINDOW == 2

-----------------------------------------------------------------------------
(* Character strings *)

Digits == <<"0", "1", "2", "3", "4", "5", "6", "7", "8", "9">>

Digit(n) == Digits[n + 1]

IsDigit(c) == \E i \in 1..10 : Digits[i] = c

\* "%Y%m%d" of an integer such as 20250101
YMD(n) ==
    [i \in 1..8 |->
        Digit(CASE i = 1 -> (n \div 10000000) % 10
                [] i = 2 -> (n \div 1000000) % 10
                [] i = 3 -> (n \div 100000) % 10
                [] i = 4 -> (n \div 10000) % 10
                [] i = 5 -> (n \div 1000) % 10
                [] i = 6 -> (n \div 100) % 10
                [] i = 7 -> (n \div 10) % 10
                [] OTHER -> n % 10)]

\* datetime.strftime("%Y%m%d") / pd.Timestamp.strftime("%Y%m%d")
strftime(dt) == YMD(dt.year * 10000 + dt.month * 100 + dt.day)

\* s[:n]
Prefix(s, n) == SubSeq(s, 1, IF Len(s) < n THEN Len(s) ELSE n)

\* s.replace(c, "")
RECURSIVE str_replace(_, _)
str_replace(s, c) ==
    IF s = <<>> THEN <<>>
    ELSE IF Head(s) = c THEN str_replace(Tail(s), c)
    ELSE <<Head(s)>> \o str_replace(Tail(s), c)

\* s.split(".")[0]
RECURSIVE split0(_)
split0(s) ==
    IF s = <<>> THEN <<>>
    ELSE IF Head(s) = "." THEN <<>>
    ELSE <<Head(s)>> \o split0(Tail(s))

-----------------------------------------------------------------------------
(* Market Clock: is_holiday / is_trading_time *)

holidays == <<
    YMD(20250101), YMD(20250102),
    YMD(20250210), YMD(20250211), YMD(20250212), YMD(20250213), YMD(20250214),
    YMD(20250404), YMD(20250405), YMD(20250406),
    YMD(20250501), YMD(20250502), YMD(20250503),
    YMD(20250608), YMD(20250609), YMD(20250610),
    YMD(20250915), YMD(20250916), YMD(20250917),
    YMD(20251001), YMD(20251002), YMD(20251003), YMD(20251004), YMD(20251005),
    YMD(20251006), YMD(20251007) >>

is_holiday(date_str) == \E i \in DOMAIN holidays : holidays[i] = date_str

\* days since 1970-01-01 of a proleptic Gregorian date
DaysFromCivil(y0, m, d) ==
    LET y   == IF m <= 2 THEN y0 - 1 ELSE y0
        era == y \div 400
        yoe == y - era * 400
        mp  == IF m > 2 THEN m - 3 ELSE m + 9
        doy == (153 * mp + 2) \div 5 + d - 1
        doe == yoe * 365 + yoe \div 4 - yoe \div 100 + doy
    IN  era * 146097 + doe - 719468

\* datetime.weekday(): Monday is 0, Sunday is 6 (1970-01-01 was a Thursday)
weekday(dt) == (DaysFromCivil(dt.year, dt.month, dt.day) + 3) % 7

\* datetime.time objects compare as (hour, minute, second)
dt_time(h, m) == [hour |-> h, minute |-> m, second |-> 0]

time_le(a, b) ==
    \/ a.hour < b.hour
    \/ a.hour = b.hour /\ a.minute < b.minute
    \/ a.hour = b.hour /\ a.minute = b.minute /\ a.second <= b.second

is_trading_time_weekend_first(dt) ==
    LET ct == [hour |-> dt.hour, minute |-> dt.minute, second |-> dt.second]
        morning   == time_le(dt_time(9, 30), ct) /\ time_le(ct, dt_time(11, 30))
        afternoon == time_le(dt_time(13, 0), ct) /\ time_le(ct, dt_time(15, 0))
    IN  IF weekday(dt) >= 5 THEN <<FALSE, "weekend closed">>
        ELSE IF is_holiday(strftime(dt)) THEN <<FALSE, "holiday closed">>
        ELSE IF morning \/ afternoon THEN <<TRUE, "within trading hours">>
        ELSE <<FALSE, "outside trading hours">>

\* returns <<is trading, reason>>
is_trading_time(dt) ==
    LET date_str  == strftime(dt)
        ct        == [hour |-> dt.hour, minute |-> dt.minute, second |-> dt.second]
        morning   == time_le(dt_time(9, 30), ct) /\ time_le(ct, dt_time(11, 30))
        afternoon == time_le(dt_time(13, 0), ct) /\ time_le(ct, dt_time(15, 0))
    IN  IF is_holiday(date_str) THEN <<FALSE, "holiday closed">>
        ELSE IF weekday(dt) >= 5 THEN <<FALSE, "weekend closed">>
        ELSE IF morning \/ afternoon THEN <<TRUE, "within trading hours">>
        ELSE <<FALSE, "outside trading hours">>

-----------------------------------------------------------------------------
(* Values of the upstream rows (pandas Series read with row[column]) *)

Float(n) == [tag |-> "float", n |-> n]
\* a text that float() cannot read, such as "-"
Text     == [tag |-> "str", n |-> 0]
\* the column is not in the row: row[column] raises KeyError
Missing  == [tag |-> "missing", n |-> 0]

\* float(row[column]): the exception raised ("" for none) and the number
to_float(v) ==
    CASE v.tag = "float"   -> [exc |-> "", n |-> v.n]
      [] v.tag = "str"     -> [exc |-> "ValueError", n |-> 0]
      [] v.tag = "None"    -> [exc |-> "TypeError", n |-> 0]
      [] OTHER             -> [exc |-> "KeyError", n |-> 0]

\* the first exception of a sequence of evaluations, in evaluation order
RECURSIVE first_exc(_)
first_exc(rs) ==
    IF rs = <<>> THEN ""
    ELSE IF Head(rs).exc # "" THEN Head(rs).exc
    ELSE first_exc(Tail(rs))

\* round(num / den) to the nearest integer, ties to even (den > 0)
Round(num, den) ==
    LET q == (2 * num + den) \div (2 * den)
    IN  IF (2 * num + den) % (2 * den) = 0 /\ q % 2 = 1 THEN q - 1 ELSE q

\* Python's None and a value v, as the sequences <<>> and <<v>>
None == <<>>
Some(v) == <<v>>

-----------------------------------------------------------------------------
(* cachetools.TTLCache and @cached.  A cache is the sequence of its entries *)
(* [key, expires, value] from the least to the most recently used.          *)

cache_keys(cache) == {cache[i].key : i \in DOMAIN cache}

cache_index(cache, k) ==
    IF k \in cache_keys(cache) THEN CHOOSE i \in DOMAIN cache : cache[i].key = k ELSE 0

\* an entry is served while timer() < link.expires
entry_live_off_by_one(e, t) == t + 1 < e.expires

entry_live(e, t) == t < e.expires

\* TTLCache.__getitem__: the link is moved to the end, then expiry decides
cache_getitem(cache, k, t) ==
    LET i == cache_index(cache, k)
    IN  IF i = 0 THEN [hit |-> FALSE, value |-> None, cache |-> cache]
        ELSE LET e     == cache[i]
                 moved == SubSeq(cache, 1, i - 1) \o SubSeq(cache, i + 1, Len(cache)) \o <<e>>
             IN  IF entry_live(e, t)
                 THEN [hit |-> TRUE, value |-> e.value, cache |-> moved]
                 ELSE [hit |-> FALSE, value |-> None, cache |-> moved]

\* TTLCache.expire
cache_expire(cache, t) == SelectSeq(cache, LAMBDA e : entry_live(e, t))

\* Cache.popitem until the new entry fits: the least recently used go first
RECURSIVE cache_make_room(_, _)
cache_make_room(cache, maxsize) ==
    IF Len(cache) + 1 > maxsize /\ cache # <<>>
    THEN cache_make_room(Tail(cache), maxsize)
    ELSE cache

\* TTLCache.__setitem__
cache_setitem(cache, k, v, t, maxsize, ttl) ==
    LET live == cache_expire(cache, t)
        i    == cache_index(live, k)
        e    == [key |-> k, expires |-> t + ttl, value |-> v]
    IN  IF i # 0
        THEN SubSeq(live, 1, i - 1) \o SubSeq(live, i + 1, Len(live)) \o <<e>>
        ELSE cache_make_room(live, maxsize) \o <<e>>

\* cachetools.keys.hashkey(symbol): the argument as passed
cache_key_by_code(symbol) == split0(symbol)

cache_key(symbol) == symbol

\* a variant that leaves None results out of the cache
cached_skip_none(cache, symbol, t, maxsize, ttl, r) ==
    LET k == cache_key(symbol)
        g == cache_getitem(cache, k, t)
    IN  IF g.hit
        THEN [exc |-> "", value |-> g.value, cache |-> g.cache, called |-> FALSE]
        ELSE [exc    |-> r.exc,
              value  |-> r.value,
              cache  |-> IF r.exc # "" \/ r.value = None THEN g.cache
                         ELSE cache_setitem(g.cache, k, r.value, t, maxsize, ttl),
              called |-> TRUE]

\* the @cached wrapper: r is what the wrapped function does when it is called,
\* [exc, value]; a result is stored, an exception passes through unstored
cached(cache, symbol, t, maxsize, ttl, r) ==
    LET k == cache_key(symbol)
        g == cache_getitem(cache, k, t)
    IN  IF g.hit
        THEN [exc |-> "", value |-> g.value, cache |-> g.cache, called |-> FALSE]
        ELSE [exc    |-> r.exc,
              value  |-> r.value,
              cache  |-> IF r.exc # "" THEN g.cache
                         ELSE cache_setitem(g.cache, k, r.value, t, maxsize, ttl),
              called |-> TRUE]

\* the keys popitem removed while they were still live
evicted_keys(before, after, t) == cache_keys(cache_expire(before, t)) \ cache_keys(after)

-----------------------------------------------------------------------------
(* The upstream provider.  ak.stock_zh_a_spot_em() raises or returns a      *)
(* frame of rows; ak.stock_zh_a_hist(symbol=code, adjust="qfq") raises or   *)
(* returns the code's history.  A fetch function's outcome is [exc, value]. *)

\* variants: the first row whatever its code; the exception left uncaught
fetch_realtime_no_filter(symbol, up) ==
    IF up.raises THEN [exc |-> "", value |-> None]
    ELSE [exc |-> "", value |-> IF up.df # <<>> THEN Some(Head(up.df)) ELSE None]

fetch_realtime_uncaught(symbol, up) ==
    LET code == split0(symbol)
        row  == SelectSeq(up.df, LAMBDA r : r.code = code)
    IN  IF up.raises THEN [exc |-> "Exception", value |-> None]
        ELSE [exc |-> "", value |-> IF row # <<>> THEN Some(Head(row)) ELSE None]

\* row.iloc[0] of df[df["code"] == code], or None; except Exception: None
fetch_realtime(symbol, up) ==
    LET code == split0(symbol)
        row  == SelectSeq(up.df, LAMBDA r : r.code = code)
    IN  IF up.raises THEN [exc |-> "", value |-> None]
        ELSE [exc |-> "", value |-> IF row # <<>> THEN Some(Head(row)) ELSE None]

\* df.iloc[-1], or None; except Exception: None
fetch_daily(symbol, up) ==
    LET code == split0(symbol)
        df   == up.hist[code]
    IN  IF up.raises THEN [exc |-> "", value |-> None]
        ELSE [exc |-> "", value |-> IF df # <<>> THEN Some(df[Len(df)]) ELSE None]

-----------------------------------------------------------------------------
(* slowapi: Limiter(key_func=get_remote_address) with "20/minute" on each   *)
(* route: a fixed window per (client address, route) in memory storage.     *)

Routes == {"get_stock_quote", "get_daily_quote"}

NoWindow == [count |-> 0, expires |-> 0]

\* MemoryStorage drops a window once its expiry has passed
storage_expire(storage, t) ==
    [k \in DOMAIN storage |->
        IF storage[k].count > 0 /\ storage[k].expires <= t THEN NoWindow ELSE storage[k]]

\* FixedWindowRateLimiter.hit: count the request, then compare with the amount
limiter_hit(storage, key, t) ==
    LET cur == storage_expire(storage, t)
        cnt == cur[key].count + 1
        win == [count   |-> cnt,
                expires |-> IF cnt = 1 THEN t + RATE_WINDOW ELSE cur[key].expires]
    IN  [admitted |-> cnt <= RATE_AMOUNT, storage |-> [cur EXCEPT ![key] = win]]

-----------------------------------------------------------------------------
(* The guard of both data routes: Security(HTTPBearer()), then the          *)
(* @limiter.limit wrapper, then the handler's own comparison.               *)

\* os.getenv("MY_API_KEY", "default_secret")
BEARER_TOKEN == "default_secret"

\* str.lower() of the schemes presented
lower(scheme) ==
    CASE scheme = "Bearer" -> "bearer"
      [] scheme = "bearer" -> "bearer"
      [] scheme = "Basic"  -> "basic"
      [] OTHER             -> scheme

\* the handler's line: scheme != "Bearer" or credentials != BEARER_TOKEN
credentials_ok_any_case(scheme, token) == token = BEARER_TOKEN

credentials_ok(scheme, token) == scheme = "Bearer" /\ token = BEARER_TOKEN

\* a variant that compares the token before the limiter is consulted
Gate_auth_first(scheme, token, storage, key, t) ==
    LET h == limiter_hit(storage, key, t)
    IN  IF lower(scheme) # "bearer"
        THEN [status |-> 403, steps |-> <<"scheme">>, storage |-> storage]
        ELSE IF ~credentials_ok(scheme, token)
        THEN [status |-> 403, steps |-> <<"scheme", "token">>, storage |-> storage]
        ELSE IF ~h.admitted
        THEN [status |-> 429, steps |-> <<"scheme", "token", "limit">>, storage |-> h.storage]
        ELSE [status |-> 0, steps |-> <<"scheme", "token", "limit">>, storage |-> h.storage]

\* status 0: the request reaches the handler's business logic.
\* "scheme": HTTPBearer resolves the dependency before the route function is
\* called and refuses a scheme other than (case-insensitive) bearer with 403;
\* "limit": the route function is the limiter's wrapper, which counts the
\* request and raises RateLimitExceeded (429) before calling the handler;
\* "token": the handler's first statement.
Gate(scheme, token, storage, key, t) ==
    LET h == limiter_hit(storage, key, t)
    IN  IF lower(scheme) # "bearer"
        THEN [status |-> 403, steps |-> <<"scheme">>, storage |-> storage]
        ELSE IF ~h.admitted
        THEN [status |-> 429, steps |-> <<"scheme", "limit">>, storage |-> h.storage]
        ELSE IF ~credentials_ok(scheme, token)
        THEN [status |-> 403, steps |-> <<"scheme", "limit", "token">>, storage |-> h.storage]
        ELSE [status |-> 0, steps |-> <<"scheme", "limit", "token">>, storage |-> h.storage]

-----------------------------------------------------------------------------
(* The handlers' bodies after the fetch *)

\* get_stock_quote's try block: [exc, quote]
stock_parse(symbol, row, w) ==
    LET tt         == is_trading_time(w)
        price      == to_float(row.last_price)
        pre_close  == to_float(row.prev_close)
        day_high   == to_float(row.high)
        day_low    == to_float(row.low)
        volume     == to_float(row.volume)
        amount     == to_float(row.amount)
        \* ((price - pre_close) / pre_close) * 100 if pre_close else 0, rounded
        \* to 2 places: counted in hundredths of a percent
        change_pct == IF pre_close.n # 0
                      THEN Round((price.n - pre_close.n) * 10000, pre_close.n)
                      ELSE 0
    IN  [exc   |-> first_exc(<<price, pre_close, day_high, day_low, volume, amount>>),
         quote |-> [symbol         |-> symbol,
                    price          |-> price.n,
                    currency       |-> "CNY",
                    change_percent |-> change_pct,
                    trade_date     |-> strftime(w),
                    day_high       |-> day_high.n,
                    day_low        |-> day_low.n,
                    volume         |-> volume.n \div 100,
                    amount         |-> amount.n \div 1000,
                    warning        |-> IF ~tt[1] THEN Some(tt[2]) ELSE None]]

\* except (ValueError, TypeError): 500 with a detail; anything else leaves the
\* handler and the framework answers 500 "Internal Server Error" in plain text
stock_response(p) ==
    IF p.exc = "" THEN [status |-> 200, body |-> "quote", quote |-> Some(p.quote)]
    ELSE IF p.exc \in {"ValueError", "TypeError"}
    THEN [status |-> 500, body |-> "detail", quote |-> None]
    ELSE [status |-> 500, body |-> "plain", quote |-> None]

\* the date column's values
Timestamp(y, m, d) == [tag |-> "Timestamp", year |-> y, month |-> m, day |-> d, chars |-> <<>>]
\* a datetime.date, which is not a pd.Timestamp
Date(y, m, d)      == [tag |-> "date", year |-> y, month |-> m, day |-> d, chars |-> <<>>]
Str(chars)         == [tag |-> "str", year |-> 0, month |-> 0, day |-> 0, chars |-> chars]

\* lines 290-296: [exc, trade_date]
normalize_trade_date(v, w) ==
    IF v.tag = "missing" THEN [exc |-> "KeyError", trade_date |-> <<>>]
    ELSE IF v.tag = "Timestamp" THEN [exc |-> "", trade_date |-> strftime(v)]
    ELSE IF v.tag = "str"
    THEN [exc |-> "", trade_date |-> Prefix(str_replace(v.chars, "-"), 8)]
    ELSE [exc |-> "", trade_date |-> strftime(w)]

\* get_daily_quote's try block: [exc, quote]
daily_parse(symbol, row, w) ==
    LET td         == normalize_trade_date(row.date, w)
        close      == to_float(row.close)
        change_pct == to_float(row.pct)
    IN  [exc   |-> first_exc(<<td, close, change_pct>>),
         quote |-> [symbol     |-> symbol,
                    close      |-> close.n,
                    change_pct |-> change_pct.n,
                    trade_date |-> td.trade_date]]

\* except Exception: 500 with a detail
daily_response(p) ==
    IF p.exc = "" THEN [status |-> 200, body |-> "quote", quote |-> Some(p.quote)]
    ELSE [status |-> 500, body |-> "detail", quote |-> None]

-----------------------------------------------------------------------------
(* The inputs explored *)

\* get_remote_address(request)
Clients == {"10.0.0.1", "10.0.0.2"}

\* symbols of two-digit codes stand for those of six
SZ000001 == <<"0", "1", ".", "S", "Z">>
SH000001 == <<"0", "1", ".", "S", "H">>
SH600000 == <<"6", "0", ".", "S", "H">>

Symbols == {SZ000001, SH000001, SH600000}

Codes == {split0(sym) : sym \in Symbols}

\* the Authorization headers presented: <<scheme, token>>
Credentials == {
    <<"Bearer", BEARER_TOKEN>>,
    <<"Bearer", "wrong">>,
    <<"bearer", BEARER_TOKEN>>,
    <<"Basic", BEARER_TOKEN>> }

\* rows of the real-time snapshot
SpotRow(code, price, pre, high) ==
    [code |-> code, last_price |-> price, prev_close |-> pre, high |-> high,
     low |-> Float(1130), volume |-> Float(5000000), amount |-> Float(571500000)]

SpotA == SpotRow(split0(SZ000001), Float(1143), Float(1140), Float(1150))
SpotB == SpotRow(split0(SZ000001), Float(1200), Float(0), Float(1210))
SpotK == SpotRow(split0(SZ000001), Float(1143), Missing, Float(1150))
SpotC == SpotRow(split0(SH600000), Float(1000), Float(1010), Text)

SpotFrames == {
    [raises |-> TRUE,  df |-> <<>>],
    [raises |-> FALSE, df |-> <<>>],
    [raises |-> FALSE, df |-> <<SpotC, SpotA>>],
    [raises |-> FALSE, df |-> <<SpotB>>],
    [raises |-> FALSE, df |-> <<SpotK, SpotC>>] }

\* rows of the daily history
HistRow(date, close) == [date |-> date, close |-> close, pct |-> Float(26)]

HistT == HistRow(Timestamp(2025, 10, 10), Float(1143))
HistS == HistRow(Str(<<"2", "0", "2", "5", "-", "1", "0", "-", "0", "9">>), Float(1140))
HistSlash == HistRow(Str(<<"2", "0", "2", "5", "/", "1", "0", "/", "0", "9">>), Float(1140))
HistD == HistRow(Date(2025, 10, 9), Float(1140))
HistK == HistRow(Timestamp(2025, 10, 10), Missing)

HistFrames == {
    [raises |-> TRUE,  hist |-> [c \in Codes |-> <<>>]],
    [raises |-> FALSE, hist |-> [c \in Codes |-> <<>>]],
    [raises |-> FALSE, hist |-> [c \in Codes |-> IF c = split0(SH600000) THEN <<HistK>> ELSE <<HistS, HistT>>]],
    [raises |-> FALSE, hist |-> [c \in Codes |-> IF c = split0(SH600000) THEN <<HistD>> ELSE <<HistT, HistS>>]],
    [raises |-> FALSE, hist |-> [c \in Codes |-> IF c = split0(SH600000) THEN <<>> ELSE <<HistSlash>>]] }

DateTime(y, mo, d, h, mi, sec) ==
    [year |-> y, month |-> mo, day |-> d, hour |-> h, minute |-> mi, second |-> sec]

DaysInMonth(y, m) ==
    IF m = 2 THEN (IF y % 4 = 0 /\ (y % 100 # 0 \/ y % 400 = 0) THEN 29 ELSE 28)
    ELSE IF m \in {4, 6, 9, 11} THEN 30 ELSE 31

\* the wall clock one tick (30 seconds) later
NextTick(dt) ==
    LET sec  == dt.second + 30
        mi   == dt.minute + sec \div 60
        h    == dt.hour + mi \div 60
        d    == dt.day + h \div 24
        over == d > DaysInMonth(dt.year, dt.month)
        mo   == IF over THEN dt.month + 1 ELSE dt.month
    IN  [year   |-> IF mo > 12 THEN dt.year + 1 ELSE dt.year,
         month  |-> IF mo > 12 THEN 1 ELSE mo,
         day    |-> IF over THEN 1 ELSE d,
         hour   |-> h % 24, minute |-> mi % 60, second |-> sec % 60]

\* the server starts on a Friday, a minute before the afternoon session ends
StartTime == DateTime(2025, 10, 10, 14, 59, 0)

-----------------------------------------------------------------------------
(* State *)

NoRequest ==
    [route |-> "", client |-> "", symbol |-> <<>>, scheme |-> "", token |-> "", upstream |-> "",
     steps |-> <<>>, status |-> 0, body |-> "", quote |-> None, row |-> None]

NoTrading == <<FALSE, "">>

Init ==
    /\ now = 0
    /\ realtime_cache = <<>>
    /\ daily_cache = <<>>
    /\ limiter_storage = [k \in Clients \X Routes |-> NoWindow]
    /\ fills = [r \in Routes |-> [sym \in Symbols |-> None]]
    /\ last = NoRequest
    /\ wall = StartTime
    /\ trading = NoTrading

\* what the provider holds for the symbol's code when the request is made
spot_state(symbol, up) ==
    IF up.raises THEN "raise"
    ELSE IF \E i \in DOMAIN up.df : up.df[i].code = split0(symbol) THEN "present"
    ELSE "absent"

hist_state(symbol, up) ==
    IF up.raises THEN "raise"
    ELSE IF up.hist[split0(symbol)] # <<>> THEN "present"
    ELSE "absent"

\* history: a fetch that stored its result starts the symbol's record; an
\* entry popped while live marks the record evicted
record_fill(f, symbol, c, before, t) ==
    LET gone == evicted_keys(before, c.cache, t)
    IN  [sym \in Symbols |->
            IF sym = symbol /\ c.called /\ c.exc = ""
            THEN Some([t |-> t, value |-> c.value, evicted |-> FALSE])
            ELSE IF f[sym] # None /\ cache_key(sym) \in gone
            THEN Some([f[sym][1] EXCEPT !.evicted = TRUE])
            ELSE f[sym]]

\* history: records older than the route's TTL are forgotten
forget_fills(f, ttl, t) ==
    [sym \in Symbols |-> IF f[sym] # None /\ f[sym][1].t + ttl <= t THEN None ELSE f[sym]]

\* the number of requests counted in the client's current window
window_count(storage, key, t) == storage_expire(storage, t)[key].count

-----------------------------------------------------------------------------
(* Operations *)

\* GET /get_stock_quote
GetStockQuote(client, symbol, scheme, token, up) ==
    LET key == <<client, "get_stock_quote">>
        g   == Gate(scheme, token, limiter_storage, key, now)
        c   == cached(realtime_cache, symbol, now, REALTIME_MAXSIZE, REALTIME_TTL,
                      fetch_realtime(symbol, up))
        rsp == IF c.exc # "" THEN [status |-> 500, body |-> "plain", quote |-> None]
               ELSE IF c.value = None THEN [status |-> 404, body |-> "detail", quote |-> None]
               ELSE stock_response(stock_parse(symbol, c.value[1], wall))
        req == [route |-> "get_stock_quote", client |-> client, symbol |-> symbol,
                scheme |-> scheme, token |-> token]
    IN  /\ window_count(limiter_storage, key, now) <= RATE_AMOUNT
        /\ limiter_storage' = g.storage
        /\ IF g.status # 0
           THEN /\ last' = req @@ [upstream |-> "", steps |-> g.steps, status |-> g.status,
                                   body |-> "detail", quote |-> None, row |-> None]
                /\ UNCHANGED <<realtime_cache, fills>>
           ELSE /\ realtime_cache' = c.cache
                /\ fills' = [fills EXCEPT !["get_stock_quote"] =
                                record_fill(@, symbol, c, realtime_cache, now)]
                /\ last' = req @@ [upstream |-> spot_state(symbol, up),
                                   steps |-> g.steps \o <<"cache">>
                                             \o (IF c.called THEN <<"fetch">> ELSE <<>>),
                                   status |-> rsp.status, body |-> rsp.body,
                                   quote |-> rsp.quote, row |-> c.value]
        /\ UNCHANGED <<now, daily_cache, wall, trading>>

\* GET /get_daily_quote
GetDailyQuote(client, symbol, scheme, token, up) ==
    LET key == <<client, "get_daily_quote">>
        g   == Gate(scheme, token, limiter_storage, key, now)
        c   == cached(daily_cache, symbol, now, DAILY_MAXSIZE, DAILY_TTL,
                      fetch_daily(symbol, up))
        rsp == IF c.exc # "" THEN [status |-> 500, body |-> "plain", quote |-> None]
               ELSE IF c.value = None THEN [status |-> 404, body |-> "detail", quote |-> None]
               ELSE daily_response(daily_parse(symbol, c.value[1], wall))
        req == [route |-> "get_daily_quote", client |-> client, symbol |-> symbol,
                scheme |-> scheme, token |-> token]
    IN  /\ window_count(limiter_storage, key, now) <= RATE_AMOUNT
        /\ limiter_storage' = g.storage
        /\ IF g.status # 0
           THEN /\ last' = req @@ [upstream |-> "", steps |-> g.steps, status |-> g.status,
                                   body |-> "detail", quote |-> None, row |-> None]
                /\ UNCHANGED <<daily_cache, fills>>
           ELSE /\ daily_cache' = c.cache
                /\ fills' = [fills EXCEPT !["get_daily_quote"] =
                                record_fill(@, symbol, c, daily_cache, now)]
                /\ last' = req @@ [upstream |-> hist_state(symbol, up),
                                   steps |-> g.steps \o <<"cache">>
                                             \o (IF c.called THEN <<"fetch">> ELSE <<>>),
                                   status |-> rsp.status, body |-> rsp.body,
                                   quote |-> rsp.quote, row |-> c.value]
        /\ UNCHANGED <<now, realtime_cache, wall, trading>>

\* time passes; the limiter's storage timer drops the windows that ended
Tick ==
    /\ now < MaxTime
    /\ now' = now + 1
    /\ wall' = NextTick(wall)
    /\ limiter_storage' = storage_expire(limiter_storage, now + 1)
    /\ fills' = [r \in Routes |->
                    forget_fills(fills[r],
                                 IF r = "get_stock_quote" THEN REALTIME_TTL ELSE DAILY_TTL,
                                 now + 1)]
    /\ UNCHANGED <<realtime_cache, daily_cache, last, trading>>

\* a request that is refused before the handler's business logic does not
\* read the provider: one frame stands for all
reaches_handler(client, route, cred) ==
    Gate(cred[1], cred[2], limiter_storage, <<client, route>>, now).status = 0

StockRequests(Cls, Creds, Syms, Frames) ==
    \E client \in Cls, cred \in Creds, symbol \in Syms :
        \E up \in (IF reaches_handler(client, "get_stock_quote", cred)
                   THEN Frames ELSE {CHOOSE f \in Frames : TRUE}) :
            GetStockQuote(client, symbol, cred[1], cred[2], up)

DailyRequests(Cls, Creds, Syms, Frames) ==
    \E client \in Cls, cred \in Creds, symbol \in Syms :
        \E up \in (IF reaches_handler(client, "get_daily_quote", cred)
                   THEN Frames ELSE {CHOOSE f \in Frames : TRUE}) :
            GetDailyQuote(client, symbol, cred[1], cred[2], up)

(* Both routes under every credential, for one symbol *)

StockRequest ==
    StockRequests({"10.0.0.1"}, Credentials, {SZ000001},
                  {[raises |-> TRUE, df |-> <<>>], [raises |-> FALSE, df |-> <<>>],
                   [raises |-> FALSE, df |-> <<SpotA>>]})

DailyRequest ==
    DailyRequests({"10.0.0.1"}, Credentials, {SZ000001},
                  {[raises |-> TRUE,  hist |-> [c \in Codes |-> <<>>]],
                   [raises |-> FALSE, hist |-> [c \in Codes |-> <<>>]],
                   [raises |-> FALSE, hist |-> [c \in Codes |-> <<HistS, HistT>>]]})

Next == StockRequest \/ DailyRequest \/ Tick

Spec == Init /\ [][Next]_vars

(* Both routes under the valid credential: three symbols, two of one code, *)
(* on the real-time route, and the provider raising or holding a row       *)

StockRequestSigned ==
    StockRequests({"10.0.0.1"}, {<<"Bearer", BEARER_TOKEN>>}, Symbols,
                  {[raises |-> TRUE, df |-> <<>>], [raises |-> FALSE, df |-> <<SpotA>>]})

DailyRequestSigned ==
    DailyRequests({"10.0.0.1"}, {<<"Bearer", BEARER_TOKEN>>}, {SZ000001},
                  {[raises |-> TRUE,  hist |-> [c \in Codes |-> <<>>]],
                   [raises |-> FALSE, hist |-> [c \in Codes |-> <<HistS, HistT>>]]})

NextCache == StockRequestSigned \/ DailyRequestSigned \/ Tick

SpecCache == Init /\ [][NextCache]_vars

(* The real-time route alone, over all the snapshot's shapes *)

StockRequestAnyFrame ==
    StockRequests({"10.0.0.1"}, {<<"Bearer", BEARER_TOKEN>>, <<"Bearer", "wrong">>}, Symbols, SpotFrames)

NextStock == StockRequestAnyFrame \/ Tick

SpecStock == Init /\ [][NextStock]_vars

(* The real-time route alone under the valid credential, from two clients, *)
(* with two snapshots that differ in the row of one code                   *)

StockRequestTwoClients ==
    StockRequests(Clients, {<<"Bearer", BEARER_TOKEN>>}, Symbols,
                  {[raises |-> FALSE, df |-> <<SpotC, SpotA>>],
                   [raises |-> FALSE, df |-> <<SpotB>>]})

NextEvict == StockRequestTwoClients \/ Tick

SpecEvict == Init /\ [][NextEvict]_vars

(* The daily route alone, over all the history's shapes *)

DailyRequestAnyFrame ==
    DailyRequests({"10.0.0.1"}, {<<"Bearer", BEARER_TOKEN>>, <<"Bearer", "wrong">>}, Symbols, HistFrames)

NextDaily == DailyRequestAnyFrame \/ Tick

SpecDaily == Init /\ [][NextDaily]_vars

(* The Market Clock alone: is_trading_time() at the dates and times below *)

\* <<year, month, day, day of the week>>
ClockDates == {
    <<2025, 1, 1, "Wed">>, <<2025, 4, 4, "Fri">>, <<2025, 4, 5, "Sat">>,
    <<2025, 4, 6, "Sun">>, <<2025, 10, 8, "Wed">>, <<2025, 10, 10, "Fri">>,
    <<2025, 10, 11, "Sat">>, <<2025, 10, 12, "Sun">>, <<2025, 10, 14, "Tue">>,
    <<2026, 1, 1, "Thu">>, <<2024, 2, 29, "Thu">> }

\* <<hour, minute, second>>
ClockTimes == {
    <<0, 0, 0>>, <<9, 29, 59>>, <<9, 30, 0>>, <<10, 0, 0>>, <<11, 30, 0>>,
    <<11, 30, 1>>, <<12, 0, 0>>, <<12, 59, 59>>, <<13, 0, 0>>, <<15, 0, 0>>,
    <<15, 0, 1>>, <<23, 59, 59>> }

ClockInputs == {DateTime(d[1], d[2], d[3], t[1], t[2], t[3]) : d \in ClockDates, t \in ClockTimes}

InitClock ==
    /\ now = 0
    /\ realtime_cache = <<>>
    /\ daily_cache = <<>>
    /\ limiter_storage = [k \in Clients \X Routes |-> NoWindow]
    /\ fills = [r \in Routes |-> [sym \in Symbols |-> None]]
    /\ last = NoRequest
    /\ wall \in ClockInputs
    /\ trading = NoTrading

CallIsTradingTime ==
    /\ trading' = is_trading_time(wall)
    /\ UNCHANGED <<now, realtime_cache, daily_cache, limiter_storage, fills, last, wall>>

NextClock == CallIsTradingTime

SpecClock == InitClock /\ [][NextClock]_vars

-----------------------------------------------------------------------------
(* Properties *)

\* a step that is a request: time stands still and last' describes it
RequestStep == now' = now

BadCredentials(l) == l.route # "" /\ (l.scheme # "Bearer" \/ l.token # BEARER_TOKEN)

\* authenticated and admitted by the limiter
Admitted(l) == l.route # "" /\ l.scheme = "Bearer" /\ l.token = BEARER_TOKEN /\ l.status # 429

Calls(l) == Cardinality({i \in DOMAIN l.steps : l.steps[i] = "fetch"})

TouchesCache(l) == \E i \in DOMAIN l.steps : l.steps[i] \in {"cache", "fetch"}

RouteTTL(r) == IF r = "get_stock_quote" THEN REALTIME_TTL ELSE DAILY_TTL

\* the symbol's latest fetch on the route is less than the TTL old (older
\* records are forgotten) and its entry has not been evicted
Retained(f) == f # None /\ ~f[1].evicted

(* C6.  For every date and time of day is_trading_time returns: the holiday *)
(* reason if the date is in the holiday set, even on a Saturday or Sunday;  *)
(* else the weekend reason on a Saturday or Sunday; else trading exactly    *)
(* when 09:30 <= t <= 11:30 or 13:00 <= t <= 15:00, bounds included; else   *)
(* "outside trading hours".  The boolean is true only with "within trading  *)
(* hours".                                                                  *)
\* The reasons are the spec's English names of the code's four texts.
HolidayDates == {
    20250101, 20250102, 20250210, 20250211, 20250212, 20250213, 20250214,
    20250404, 20250405, 20250406, 20250501, 20250502, 20250503,
    20250608, 20250609, 20250610, 20250915, 20250916, 20250917,
    20251001, 20251002, 20251003, 20251004, 20251005, 20251006, 20251007 }

DayName(dt) ==
    (CHOOSE d \in ClockDates : d[1] = dt.year /\ d[2] = dt.month /\ d[3] = dt.day)[4]

SecondOfDay(dt) == dt.hour * 3600 + dt.minute * 60 + dt.second

MarketClockExpected(dt) ==
    LET t == SecondOfDay(dt)
    IN  IF dt.year * 10000 + dt.month * 100 + dt.day \in HolidayDates
        THEN <<FALSE, "holiday closed">>
        ELSE IF DayName(dt) \in {"Sat", "Sun"} THEN <<FALSE, "weekend closed">>
        ELSE IF (34200 <= t /\ t <= 41400) \/ (46800 <= t /\ t <= 54000)
        THEN <<TRUE, "within trading hours">>
        ELSE <<FALSE, "outside trading hours">>

C6_MarketClock ==
    trading # NoTrading =>
        /\ trading = MarketClockExpected(wall)
        /\ trading[1] <=> trading[2] = "within trading hours"

\* a holiday that falls on a Saturday has been given the holiday reason
C6_Witness ==
    /\ trading = <<FALSE, "holiday closed">>
    /\ DayName(wall) = "Sat"

C8_UpstreamFailure ==
    /\ Calls(last) <= 1
    /\ (Calls(last) = 1 /\ last.upstream = "raise") => last.status = 404

C8_Witness ==
    /\ last.route = "get_stock_quote"
    /\ Calls(last) = 1
    /\ last.upstream = "raise"
    /\ last.status = 404

(* C9 (as claimed).  Both caches are keyed by the bare code: two requests   *)
(* to one route whose symbols share the bare code but differ in suffix      *)
(* share one entry, so the second of them within the TTL makes no upstream  *)
(* call; and a fetch through one cache never changes the other.             *)
C9_Original ==
    [][(RequestStep /\ Admitted(last')) =>
        LET r == last'.route
        IN  /\ (\E sym \in Symbols : /\ split0(sym) = split0(last'.symbol)
                                     /\ Retained(fills[r][sym]))
                   => Calls(last') = 0
            /\ r = "get_stock_quote" => daily_cache' = daily_cache
            /\ r = "get_daily_quote" => realtime_cache' = realtime_cache]_vars

(* C9 (amended).  Both caches are keyed by the symbol string as the client  *)
(* sent it, suffix included: a request is served without an upstream call   *)
(* exactly when that same string was fetched on that route less than the    *)
(* TTL ago and its entry has not been evicted, so symbols that differ only  *)
(* in suffix have separate entries and are fetched separately; and a fetch  *)
(* through one cache never changes the other.                               *)
C9_Amended ==
    [][(RequestStep /\ Admitted(last')) =>
        LET r == last'.route
        IN  /\ cache_keys(realtime_cache') \cup cache_keys(daily_cache') \subseteq Symbols
            /\ Calls(last') = 0 <=> Retained(fills[r][last'.symbol])
            /\ r = "get_stock_quote" => daily_cache' = daily_cache
            /\ r = "get_daily_quote" => realtime_cache' = realtime_cache]_vars

\* two symbols of one code have been fetched separately and hold an entry
\* each, while the other cache holds an entry of its own
C9_Witness ==
    /\ last.route = "get_stock_quote"
    /\ Calls(last) = 1
    /\ \E i, j \in DOMAIN realtime_cache :
          /\ i # j
          /\ split0(realtime_cache[i].key) = split0(realtime_cache[j].key)
          /\ entry_live(realtime_cache[i], now) /\ entry_live(realtime_cache[j], now)
    /\ daily_cache # <<>>

(* C10.  A "not found" outcome, from an absent symbol or from an upstream   *)
(* exception, is cached like a row: until that entry expires (the route's   *)
(* TTL) or is evicted, every authenticated, admitted request for the symbol *)
(* on the same route is answered 404 without an upstream call, even when    *)
(* the provider would now return a row.                                     *)
C10_NotFoundCached ==
    [][(RequestStep /\ Admitted(last')) =>
        LET f == fills[last'.route][last'.symbol]
        IN  (Retained(f) /\ f[1].value = None /\ now < f[1].t + RouteTTL(last'.route))
                => /\ last'.status = 404
                   /\ Calls(last') = 0]_vars

\* 404 from the cache while the provider holds a row for the symbol
C10_Witness ==
    /\ Admitted(last)
    /\ last.route = "get_daily_quote"
    /\ last.status = 404
    /\ Calls(last) = 0
    /\ last.upstream = "present"

(* C2 (as claimed).  Of two authenticated, admitted /get_stock_quote        *)
(* requests for one symbol string less than the real-time TTL apart, the    *)
(* second makes no upstream call and sees the same row, whatever requests   *)
(* for other symbols were made in between.                                  *)
\* Stated for the pairs whose first request is the one that fetched the row.
C2_Original ==
    [][(RequestStep /\ Admitted(last') /\ last'.route = "get_stock_quote") =>
        LET f == fills["get_stock_quote"][last'.symbol]
        IN  (f # None /\ now < f[1].t + REALTIME_TTL)
                => /\ Calls(last') = 0
                   /\ last'.row = f[1].value]_vars

(* C2 (amended).  An authenticated, admitted /get_stock_quote request made  *)
(* less than the real-time TTL after the request that fetched its symbol    *)
(* string from upstream makes no upstream call and sees the row fetched     *)
(* then, provided the symbol's entry has not been evicted in between: the   *)
(* cache holds at most REALTIME_MAXSIZE entries, and fetching one more      *)
(* symbol discards the least recently used live entry.                      *)
C2_Amended ==
    [][(RequestStep /\ Admitted(last') /\ last'.route = "get_stock_quote") =>
        LET f == fills["get_stock_quote"][last'.symbol]
        IN  /\ (Retained(f) /\ now < f[1].t + REALTIME_TTL)
                => /\ Calls(last') = 0
                   /\ last'.row = f[1].value
            /\ Len(cache_expire(realtime_cache', now)) <= REALTIME_MAXSIZE
            /\ \A sym \in Symbols :
                   (Retained(fills["get_stock_quote"][sym])
                        /\ ~Retained(fills'["get_stock_quote"][sym]))
                   => /\ Calls(last') = 1
                      /\ Len(cache_expire(realtime_cache, now)) = REALTIME_MAXSIZE
                      /\ cache_expire(realtime_cache, now)[1].key = sym]_vars

\* a row has been served from the cache after time has passed and another
\* symbol has been fetched
C2_Witness ==
    /\ Admitted(last)
    /\ last.route = "get_stock_quote"
    /\ last.status = 200
    /\ Calls(last) = 0
    /\ Len(realtime_cache) = REALTIME_MAXSIZE
    /\ fills["get_stock_quote"][last.symbol] # None
    /\ fills["get_stock_quote"][last.symbol][1].t < now

(* C3 (as claimed).  An authenticated, admitted /get_stock_quote request    *)
(* whose bare code is not in the upstream snapshot at the time of the       *)
(* request is answered 404 in every state of the cache, also when the       *)
(* symbol was in a snapshot fetched less than the TTL ago.                  *)
C3_Original ==
    (Admitted(last) /\ last.route = "get_stock_quote" /\ last.upstream = "absent")
        => last.status = 404

(* C3 (amended).  Such a request is answered 404 when it reaches upstream,  *)
(* that is when the cache holds no live entry for its symbol string; when   *)
(* it is served from the cache it is answered from the cached outcome: 404  *)
(* if that is "not found", and from the cached row otherwise.               *)
C3_Amended ==
    (Admitted(last) /\ last.route = "get_stock_quote" /\ last.upstream = "absent")
        => /\ Calls(last) = 1 => (last.status = 404 /\ last.row = None)
           /\ Calls(last) = 0 => (last.status = 404 <=> last.row = None)

\* a code absent from a snapshot that holds other codes: 404 from upstream
C3_Witness ==
    /\ Admitted(last)
    /\ last.route = "get_stock_quote"
    /\ last.upstream = "absent"
    /\ Calls(last) = 1
    /\ last.status = 404
    /\ last.symbol = SH600000

(* C7.  On both routes every failure while the fetched row's fields are     *)
(* read and converted (a missing field, a field of unexpected type, a       *)
(* non-numeric value) ends the request with a 500 response whose JSON body  *)
(* carries a detail; none leaves the handler unconverted, and no partly     *)
(* filled quote is returned.                                                *)
C7_ParseFailure ==
    (Admitted(last) /\ last.row # None) =>
        \/ last.status = 200 /\ last.body = "quote" /\ last.quote # None
        \/ last.status = 500 /\ last.body = "detail" /\ last.quote = None

\* the digits of a text, in order
RECURSIVE DigitsOf(_)
DigitsOf(chars) ==
    IF chars = <<>> THEN <<>>
    ELSE IF IsDigit(Head(chars)) THEN <<Head(chars)>> \o DigitsOf(Tail(chars))
    ELSE DigitsOf(Tail(chars))

TradeDateExpected(v, today) ==
    CASE v.tag \in {"Timestamp", "date"} -> YMD(v.year * 10000 + v.month * 100 + v.day)
      [] v.tag = "str"                   -> Prefix(DigitsOf(v.chars), 8)
      [] OTHER                           -> YMD(today.year * 10000 + today.month * 100 + today.day)

(* C5.  Every 200 response of /get_daily_quote carries a trade_date of      *)
(* exactly 8 decimal digits: a timestamp yields its YYYYMMDD; a plain date  *)
(* value that is not a timestamp yields its own YYYYMMDD; a text date with  *)
(* any non-digit separator yields its digits, cut to 8 characters; only a   *)
(* value that is neither date/time nor text falls back to the current date. *)
C5_TradeDate ==
    (last.route = "get_daily_quote" /\ last.status = 200) =>
        LET td == last.quote[1].trade_date
        IN  /\ Len(td) = 8
            /\ \A i \in DOMAIN td : IsDigit(td[i])
            /\ td = TradeDateExpected(last.row[1].date, wall)

====
